---------------------------- MODULE Spec2Model ----------------------------
(***************************************************************************)
(* NSX fabric provisioning (zpod_component_add_nsx.py) as a state machine. *)
(*                                                                         *)
(* The program is execute_config_script: one sequential run that drives    *)
(* the NSX manager's REST API.  The NSX manager (NsxClient, the TLS        *)
(* endpoint of the vCenter, the settings database) is the environment:     *)
(* every request is answered by a nondeterministic choice between the      *)
(* documented answer and a bounded number of anomalies (a raised error, a  *)
(* response that lacks a field).  The backend's resources outlive a run,   *)
(* the program's local variables do not.                                   *)
(***************************************************************************)
EXTENDS Integers, Sequences, FiniteSets, TLC

(***************************************************************************)
(* Bounds of the model.                                                    *)
(***************************************************************************)
\* Runs of execute_config_script against the same fabric.
MaxRuns == 2
\* Answers of the environment that depart from the documented API (errors
\* raised by a request, responses lacking "id" or "path") over all runs.
MaxAnomalies == 2

(***************************************************************************)
(* Error messages.  str(e) is modelled by the set of phrases it contains;  *)
(* the code only ever asks whether a phrase occurs in str(e) or in         *)
(* str(e).lower().                                                         *)
(***************************************************************************)
MsgAlreadyExists == {"already exists"}
MsgAlreadyExistsCaps == {"Already Exists"}
MsgDuplicate == {"Duplicate"}
MsgCode7050 == {"error_code", "7050", "already registered with NSX"}
MsgCodeOther == {"error_code", "500"}
MsgRegistered == {"already registered with NSX"}
MsgFailed == {"Connection failed"}
MsgTimedOut == {"timed out"}
MsgServerError == {"Internal Server Error"}

Messages ==
    { MsgAlreadyExists, MsgAlreadyExistsCaps, MsgDuplicate, MsgCode7050,
      MsgCodeOther, MsgRegistered, MsgFailed, MsgTimedOut }

\* str.lower() of one phrase.
LowerPhrase(p) ==
    CASE p = "Already Exists" -> "already exists"
      [] p = "Duplicate" -> "duplicate"
      [] p = "already registered with NSX" -> "already registered with nsx"
      [] p = "Connection failed" -> "connection failed"
      [] p = "Internal Server Error" -> "internal server error"
      [] p = "Host preparation failed for" -> "host preparation failed for"
      [] p = "No transport nodes found for compute collection" ->
             "no transport nodes found for compute collection"
      [] p = "Timeout waiting for host preparation" ->
             "timeout waiting for host preparation"
      [] OTHER -> p

\* The needles the code searches for that occur inside one phrase.
Substrings(p) ==
    CASE p = "error_code" -> {"error_code", "error"}
      [] p = "connection failed" -> {"connection failed", "failed"}
      [] p = "Connection failed" -> {"Connection failed", "failed"}
      [] p = "internal server error" -> {"internal server error", "error"}
      [] p = "host preparation failed for" -> {"host preparation failed for", "failed"}
      [] p = "Host preparation failed for" -> {"Host preparation failed for", "failed"}
      [] OTHER -> {p}

\* needle in str(e)
Contains(msg, needle) == \E p \in msg : needle \in Substrings(p)

\* needle in str(e).lower()
ContainsLower(msg, needle) == \E p \in msg : needle \in Substrings(LowerPhrase(p))


(***************************************************************************)
(* Resources of the NSX manager and the descriptors (decoded JSON objects) *)
(* the program holds.  A path is the sequence of its "/"-separated         *)
(* segments; a descriptor records which of the keys "id" and "path" the    *)
(* JSON object carries (hasId, hasPath), and ref is the identity of the    *)
(* backend resource it describes (its index in the store; 0: none).        *)
(***************************************************************************)
\* The kinds the program writes, and those it provisions by create-or-get.
CreatedKinds == {"cm", "ipblock", "ippool", "subnet", "uplink", "tnp", "htnc"}
CreateOrGetKinds == {"cm", "ipblock", "ippool", "uplink", "tnp", "htnc"}
\* Kinds created by POST (server-generated id); the others by PUT at a path.
PostKinds == {"cm", "ipblock", "htnc"}
\* Kinds of the Policy API, whose objects carry "id" and "path".
PolicyKinds == {"ippool", "subnet", "uplink", "tnp", "tz"}

\* Python's None, and {} (safejson of a 404).
None == [ref |-> 0, hasId |-> FALSE, id |-> "", hasPath |-> FALSE, path |-> <<>>]

\* The id the server generates for the n-th object of a kind.
Uuid(n) == "uuid-" \o ToString(n)

\* The path the backend itself reports for an object, when it reports one.
BackendPath(k, id) ==
    CASE k = "ippool" -> <<"infra", "ip-pools", id>>
      [] k = "uplink" -> <<"infra", "host-switch-profiles", id>>
      [] k = "tnp" -> <<"infra", "host-transport-node-profiles", id>>
      [] k = "tz" -> <<"infra", "sites", "default", "enforcement-points",
                       "default", "transport-zones", id>>
      [] k = "ipblock" -> <<"infra", "ip-blocks", id>>
      [] k = "htnc" -> <<"infra", "sites", "default", "enforcement-points",
                         "default", "transport-node-collections", id>>
      [] OTHER -> <<"infra", k, id>>

\* What a response may carry of an object: both keys, "id" alone, "id" and
\* an empty "path", or neither key.
Shapes == {"full", "idonly", "emptypath", "bare"}

\* The documented shape: Policy API objects carry both keys, Manager API
\* objects (compute manager, IP block, transport node collection) carry "id".
NormalShape(k) == IF k \in PolicyKinds THEN "full" ELSE "idonly"

\* The JSON object of the resource ref of kind k with id `id`, in a shape.
Raw(k, ref, id, shape) ==
    [ref |-> ref,
     hasId |-> shape # "bare",
     id |-> IF shape # "bare" THEN id ELSE "",
     hasPath |-> shape \in {"full", "emptypath"},
     path |-> IF shape = "full" THEN BackendPath(k, id) ELSE <<>>]

\* if "path" not in obj and "id" in obj: obj["path"] = f"{prefix}{obj['id']}"
SetPathBroken(d, prefix) == d
SetPath(d, prefix) ==
    IF ~d.hasPath /\ d.hasId
    THEN [d EXCEPT !.hasPath = TRUE, !.path = prefix \o <<d.id>>]
    ELSE d

IpBlockPrefix == <<"api", "v1", "pools", "ip-blocks">>
IpPoolPrefix == <<"policy", "api", "v1", "infra", "ip-pools">>
TransportZonePrefix ==
    <<"infra", "sites", "default", "enforcement-points", "default",
      "transport-zones">>
HtncPrefix == <<"transport-node-collections">>

\* display_name.lower().replace(" ", "-").replace("_", "-")
Slug(name) ==
    CASE name = "ip-pool-vtep" -> "ip-pool-vtep"
      [] name = "IP Pool_vtep" -> "ip-pool-vtep"
      [] OTHER -> name

\* The names the program provisions under (for the compute manager: the
\* server it is matched by, f"vcsa.{zpod.domain}").
NameOf(k) ==
    CASE k = "cm" -> "vcsa.zpod.example"
      [] k = "ipblock" -> "ip-block-vtep"
      [] k = "ippool" -> "ip-pool-vtep"
      [] k = "uplink" -> "Uplink host switch profile"
      [] k = "tnp" -> "tnp"
      [] k = "htnc" -> "Host transport node collection"
      [] k = "subnet" -> "subnet-ip-pool-vtep"
      [] OTHER -> k


(***************************************************************************)
(* State.                                                                  *)
(***************************************************************************)
VARIABLES
    store,      \* backend: kind -> sequence of resources [name, id]
    run,        \* number of runs of execute_config_script started
    pc,         \* position of the current run
    loc,        \* local variables of execute_config_script
    exc,        \* the exception the run caught last (its message), or {}
    err,        \* the error the run ended with, or NoErr
    last,       \* the most recent request of this run and its outcome
    creates,    \* kind -> create requests (POST or PUT) issued in this run
    call,       \* kind -> how this run's create-or-get went
    prevCall,   \* call, of the previous run
    prevOutcome,   \* how the run before this one ended: "", "done" or "failed"
    anomalies,  \* anomalous answers of the environment so far
    elapsed,    \* time.time() - start_time of the poll in progress
    fetches,    \* status fetches of the poll in progress
    vfy         \* local variables of verify_nsx_configuration_status

vars ==
    <<store, run, pc, loc, exc, err, last, creates, call, prevCall, prevOutcome,
      anomalies, elapsed, fetches, vfy>>

NoErr == [step |-> 0, type |-> "", msg |-> {}]
NoReq ==
    [step |-> 0, method |-> "", url |-> "", existed |-> FALSE, ok |-> TRUE,
     msg |-> {}, status |-> ""]
NoCall == [ref |-> 0, lookup |-> "none", via |-> ""]

\* status_data before the first status fetch has bound it.
Unbound == [bound |-> FALSE, hasStatus |-> FALSE, status |-> "", hasDeployment |-> FALSE,
            deployment |-> ""]

NoVerify ==
    [fine |-> FALSE, attempt |-> 0, status_data |-> Unbound, listed |-> FALSE,
     relevant_nodes |-> <<>>, fetched |-> 0, answers |-> <<>>, nodes_ready |-> FALSE,
     all_ready |-> TRUE, failed_nodes |-> <<>>, preparing_hosts |-> <<>>, empties |-> 0]

NoLocals ==
    [compute_manager |-> None, ip_block |-> None, ip_pool |-> None,
     uplink_profile |-> None, overlay_tz |-> None, vlan_tz |-> None,
     vsphere_dvs_id |-> "", tnp |-> None, compute_collection |-> None,
     htnc |-> None, htnc_path |-> <<>>, ff_component_wait_for_status |-> ""]

\* The values the setting ff_component_wait_for_status may have (line 27).
SettingValues == {"true", "True", "false"}

\* The locals of execute_config_script with only those in `live` kept: the
\* statements after a step read no others.  After line 110 the script reads
\* tnp (line 120) and what it assigns later; after line 122 it reads
\* compute_collection (line 138) and htnc.
Keep(l, live) == [n \in DOMAIN NoLocals |-> IF n \in live THEN l[n] ELSE NoLocals[n]]
AfterTnp == {"tnp"}
AfterHtnc == {"compute_collection", "htnc", "htnc_path"}

\* The steps of execute_config_script, numbered in program order.
StepEula == 1
StepCm == 2
StepCmStatus == 3
StepIpBlock == 4
StepIpPool == 5
StepSubnet == 6
StepUplink == 7
StepTz == 8
StepDvs == 9
StepTnp == 10
StepCc == 11
StepHtnc == 12
StepRealize == 13
StepVerify == 14

(***************************************************************************)
(* The environment: the answers a request can get.  An answer is ok with   *)
(* a shape, or an error with a message; cost counts it as an anomaly.      *)
(***************************************************************************)
OkAnswers(k) ==
    { [ok |-> TRUE, msg |-> {}, shape |-> s, status |-> "",
       cost |-> IF s = NormalShape(k) THEN 0 ELSE 1] : s \in Shapes }

ErrAnswers ==
    { [ok |-> FALSE, msg |-> m, shape |-> "bare", status |-> "", cost |-> 1] :
      m \in Messages }

\* The answer of a request whose response body the program does not read.
Plain == [ok |-> TRUE, msg |-> {}, shape |-> "bare", status |-> "", cost |-> 0]

Affordable(as) == { a \in as : anomalies + a.cost <= MaxAnomalies }

\* The error of a request whose error text the program never inspects.
Failure == { e \in ErrAnswers : e.msg = MsgFailed }

\* Answers to a read of kind k.
ReadAnswers(k) == Affordable(OkAnswers(k) \cup Failure)

\* The conflict a create of an existing resource is rejected with: the
\* compute manager's is NSX error 7050 (server already registered).
ConflictMsgs(k) ==
    IF k = "cm" THEN {MsgCode7050}
    ELSE {MsgAlreadyExists, MsgAlreadyExistsCaps, MsgDuplicate}

\* Answers to a create of kind k, `exists` telling whether its target
\* exists.  NSX registers a vCenter once; for the other kinds the backend
\* may accept the write (a second object for POST, an update for PUT).
WriteAnswers(k, exists) ==
    Affordable(
        (IF exists /\ k = "cm" THEN {} ELSE OkAnswers(k))
        \cup ErrAnswers
        \cup (IF exists
              THEN { [ok |-> FALSE, msg |-> m, shape |-> "bare", status |-> "", cost |-> 0] :
                     m \in ConflictMsgs(k) }
              ELSE {}))

Min(S) == CHOOSE x \in S : \A y \in S : x <= y

\* Indices of the resources of kind k named `name` / with id `id`.
Named(k, name) == { i \in 1..Len(store[k]) : store[k][i].name = name }
WithId(k, id) == { i \in 1..Len(store[k]) : store[k][i].id = id }

\* for obj in results: if obj.get("display_name") == name: return obj
FirstMatchAny(k, name, shape) ==
    IF Len(store[k]) = 0 THEN None
    ELSE Raw(k, 1, store[k][1].id, shape)
FirstMatch(k, name, shape) ==
    IF Named(k, name) = {} THEN None
    ELSE LET i == Min(Named(k, name)) IN Raw(k, i, store[k][i].id, shape)

\* GET of one object by id: the object, or {} for a 404.
GetById(k, id, shape) ==
    IF WithId(k, id) = {} THEN None
    ELSE LET i == Min(WithId(k, id)) IN Raw(k, i, store[k][i].id, shape)

\* The backend after an accepted POST: a new object with a generated id.
Posted(k, name) ==
    [store EXCEPT ![k] = Append(@, [name |-> name, id |-> Uuid(Len(@) + 1)])]
PostedRef(k) == Len(store[k]) + 1

\* The backend after an accepted PUT at id: the object there is replaced,
\* or created when there is none.
Put(k, name, id) ==
    IF WithId(k, id) = {}
    THEN [store EXCEPT ![k] = Append(@, [name |-> name, id |-> id])]
    ELSE [store EXCEPT ![k][Min(WithId(k, id))] = [name |-> name, id |-> id]]
PutRef(k, id) ==
    IF WithId(k, id) = {} THEN Len(store[k]) + 1 ELSE Min(WithId(k, id))

Request(step, method, url, existed, a) ==
    [step |-> step, method |-> method, url |-> url, existed |-> existed,
     ok |-> a.ok, msg |-> a.msg, status |-> a.status]

Fatal(step, type, msg) == [step |-> step, type |-> type, msg |-> msg]

(***************************************************************************)
(* Initial state: no run started; the fabric holds nothing, or only        *)
(* resources of other names.                                               *)
(***************************************************************************)
EmptyStore == [k \in CreatedKinds |-> <<>>]
ForeignStore ==
    [k \in CreatedKinds |->
        IF k \in {"cm", "ipblock", "ippool", "tnp", "htnc"}
        THEN << [name |-> "other", id |-> IF k \in PostKinds THEN Uuid(1) ELSE "other"] >>
        ELSE <<>>]

Init ==
    /\ store \in {EmptyStore, ForeignStore}
    /\ run = 0
    /\ pc = "idle"
    /\ loc = NoLocals
    /\ exc = {}
    /\ err = NoErr
    /\ last = NoReq
    /\ creates = [k \in CreatedKinds |-> 0]
    /\ call = [k \in CreateOrGetKinds |-> NoCall]
    /\ prevCall = [k \in CreateOrGetKinds |-> NoCall]
    /\ prevOutcome = ""
    /\ anomalies = 0
    /\ elapsed = 0
    /\ fetches = 0
    /\ vfy = NoVerify


(***************************************************************************)
(* How a step ends: the run goes on at position p, or an exception leaves  *)
(* execute_config_script (nothing catches it there: the run is over).      *)
(***************************************************************************)
Goto(p) ==
    /\ pc' = p
    /\ err' = err
    /\ prevOutcome' = prevOutcome

Raise(step, type, msg) ==
    /\ pc' = "failed"
    /\ err' = Fatal(step, type, msg)
    /\ prevOutcome' = prevOutcome

Return ==
    /\ pc' = "done"
    /\ err' = err
    /\ prevOutcome' = prevOutcome

\* What a lookup that returned d (None: nothing) tells about the call.
LookupResult(a, d) == IF ~a.ok THEN "error" ELSE IF d.ref # 0 THEN "hit" ELSE "miss"

(***************************************************************************)
(* execute_config_script, lines 23-34: the feature setting, the client,    *)
(* the EULA.                                                               *)
(***************************************************************************)
StartRunUngated ==
    /\ pc \in {"idle", "done", "failed"}
    /\ run < MaxRuns
    /\ run' = run + 1
    /\ exc' = {}
    /\ last' = NoReq
    /\ creates' = [k \in CreatedKinds |-> 0]
    /\ prevCall' = [k \in CreateOrGetKinds |-> [call[k] EXCEPT !.via = ""]]
    /\ call' = [k \in CreateOrGetKinds |-> NoCall]
    /\ elapsed' = 0
    /\ fetches' = 0
    /\ vfy' = NoVerify
    /\ \E ff \in SettingValues :
          /\ loc' = [NoLocals EXCEPT !.ff_component_wait_for_status = ff]
          /\ pc' = "eula"
          /\ err' = NoErr
    /\ prevOutcome' = IF pc = "idle" THEN "" ELSE pc
    /\ UNCHANGED <<store, anomalies>>
StartRun ==
    /\ pc \in {"idle", "done", "failed"}
    /\ run < MaxRuns
    /\ run' = run + 1
    /\ exc' = {}
    /\ last' = NoReq
    /\ creates' = [k \in CreatedKinds |-> 0]
    /\ prevCall' = [k \in CreateOrGetKinds |-> [call[k] EXCEPT !.via = ""]]
    /\ call' = [k \in CreateOrGetKinds |-> NoCall]
    /\ elapsed' = 0
    /\ fetches' = 0
    /\ vfy' = NoVerify
    /\ \E ff \in SettingValues :
          /\ loc' = [NoLocals EXCEPT !.ff_component_wait_for_status = ff]
          /\ IF ff # "true"
             THEN /\ pc' = "failed"
                  /\ err' = Fatal(0, "ValueError", {"ff_component_wait_for_status is not true"})
             ELSE /\ pc' = "eula"
                  /\ err' = NoErr
    /\ prevOutcome' = IF pc = "idle" THEN "" ELSE pc
    /\ UNCHANGED <<store, anomalies>>

AcceptEulaSoft ==
    /\ pc = "eula"
    /\ \E a \in Affordable({Plain} \cup Failure) :
          /\ anomalies' = anomalies + a.cost
          /\ last' = Request(StepEula, "POST", "eula/accept", FALSE, a)
          /\ Goto("cm_thumbprint")
    /\ UNCHANGED <<store, run, loc, exc, creates, call, prevCall, elapsed,
                   fetches, vfy>>

\* Line 33: the POST of eula/accept; nothing catches its error.
AcceptEula ==
    /\ pc = "eula"
    /\ \E a \in Affordable({Plain}
                           \cup Failure) :
          /\ anomalies' = anomalies + a.cost
          /\ last' = Request(StepEula, "POST", "eula/accept", FALSE, a)
          /\ IF a.ok THEN Goto("cm_thumbprint")
             ELSE Raise(StepEula, "NsxError", a.msg)
    /\ UNCHANGED <<store, run, loc, exc, creates, call, prevCall, elapsed,
                   fetches, vfy>>

(***************************************************************************)
(* Step 1 of the script (lines 36-56) and create_compute_manager.          *)
(***************************************************************************)
\* get_existing_compute_manager: any exception of the listing gives None.
get_existing_compute_manager(a) ==
    IF a.ok THEN FirstMatch("cm", NameOf("cm"), a.shape) ELSE None

\* Line 42, the script's handler: "error_code" in str(e) and "7050" in str(e)
IsAlreadyRegistered(msg) == Contains(msg, "error_code") /\ Contains(msg, "7050")

\* Line 206, create_compute_manager's handler.
IsCmConflict(msg) ==
    Contains(msg, "already registered with NSX") \/ Contains(msg, "error_code")

\* An exception e leaves create_compute_manager: lines 40-56.
CmRaised(msg) ==
    IF IsAlreadyRegistered(msg)
    THEN /\ exc' = msg
         /\ Goto("cm_recover")
    ELSE /\ exc' = exc
         /\ Raise(StepCm, "NsxError", msg)

\* get_ssl_thumbprint (line 169): the TLS connection to the vCenter.
CmThumbprintSoft ==
    /\ pc = "cm_thumbprint"
    /\ \E a \in Affordable({Plain}
                           \cup { e \in ErrAnswers : e.msg \in {MsgTimedOut, MsgFailed} }) :
          /\ anomalies' = anomalies + a.cost
          /\ Goto("cm_lookup") /\ exc' = exc
    /\ UNCHANGED <<store, run, loc, last, creates, call, prevCall, elapsed,
                   fetches, vfy>>
CmThumbprint ==
    /\ pc = "cm_thumbprint"
    /\ \E a \in Affordable({Plain}
                           \cup { e \in ErrAnswers : e.msg \in {MsgTimedOut, MsgFailed} }) :
          /\ anomalies' = anomalies + a.cost
          /\ IF a.ok THEN Goto("cm_lookup") /\ exc' = exc
             ELSE CmRaised(a.msg)
    /\ UNCHANGED <<store, run, loc, last, creates, call, prevCall, elapsed,
                   fetches, vfy>>

\* Lines 172-177.
CmLookup ==
    /\ pc = "cm_lookup"
    /\ \E a \in ReadAnswers("cm") :
          LET existing_cm == get_existing_compute_manager(a) IN
          /\ anomalies' = anomalies + a.cost
          /\ last' = Request(StepCm, "GET", "fabric/compute-managers", FALSE, a)
          /\ IF existing_cm.ref # 0
             THEN /\ loc' = [loc EXCEPT !.compute_manager = existing_cm]
                  /\ call' = [call EXCEPT !["cm"] =
                                [ref |-> existing_cm.ref, lookup |-> "hit", via |-> "lookup"]]
                  /\ Goto("cm_status")
             ELSE /\ loc' = loc
                  /\ call' = [call EXCEPT !["cm"].lookup = LookupResult(a, existing_cm)]
                  /\ Goto("cm_post")
    /\ UNCHANGED <<store, run, exc, creates, prevCall, elapsed, fetches, vfy>>

\* Lines 195-218: the POST and the classification of its error.
CmPost ==
    /\ pc = "cm_post"
    /\ \E a \in WriteAnswers("cm", Named("cm", NameOf("cm")) # {}) :
          /\ anomalies' = anomalies + a.cost
          /\ last' = Request(StepCm, "POST", "fabric/compute-managers",
                             Named("cm", NameOf("cm")) # {}, a)
          /\ creates' = [creates EXCEPT !["cm"] = @ + 1]
          /\ IF a.ok
             THEN /\ store' = Posted("cm", NameOf("cm"))
                  /\ loc' = [loc EXCEPT !.compute_manager =
                                Raw("cm", PostedRef("cm"), Uuid(PostedRef("cm")), a.shape)]
                  /\ call' = [call EXCEPT !["cm"].ref = PostedRef("cm"),
                                          !["cm"].via = "create"]
                  /\ exc' = exc
                  /\ Goto("cm_status")
             ELSE /\ store' = store
                  /\ loc' = loc
                  /\ call' = call
                  /\ IF IsCmConflict(a.msg)
                     THEN exc' = a.msg /\ Goto("cm_relookup")
                     ELSE CmRaised(a.msg)
    /\ UNCHANGED <<run, prevCall, elapsed, fetches, vfy>>

\* Lines 210-216: the second lookup, inside create_compute_manager.
CmRelookup ==
    /\ pc = "cm_relookup"
    /\ \E a \in ReadAnswers("cm") :
          LET existing_cm == get_existing_compute_manager(a) IN
          /\ anomalies' = anomalies + a.cost
          /\ last' = Request(StepCm, "GET", "fabric/compute-managers", FALSE, a)
          /\ IF existing_cm.ref # 0
             THEN /\ loc' = [loc EXCEPT !.compute_manager = existing_cm]
                  /\ call' = [call EXCEPT !["cm"].ref = existing_cm.ref,
                                          !["cm"].via = "recover"]
                  /\ exc' = exc
                  /\ Goto("cm_status")
             ELSE /\ loc' = loc
                  /\ call' = call
                  /\ CmRaised(exc)
    /\ UNCHANGED <<store, run, creates, prevCall, elapsed, fetches, vfy>>

\* Lines 43-54: the script's own lookup after error 7050.
CmRecover ==
    /\ pc = "cm_recover"
    /\ \E a \in ReadAnswers("cm") :
          LET existing_cm == get_existing_compute_manager(a) IN
          /\ anomalies' = anomalies + a.cost
          /\ last' = Request(StepCm, "GET", "fabric/compute-managers", FALSE, a)
          /\ IF existing_cm.ref # 0
             THEN /\ loc' = [loc EXCEPT !.compute_manager = existing_cm]
                  /\ call' = [call EXCEPT !["cm"].ref = existing_cm.ref,
                                          !["cm"].via = "recover"]
                  /\ exc' = exc
                  /\ Goto("cm_status")
             ELSE /\ loc' = loc
                  /\ call' = call
                  /\ exc' = exc
                  /\ Raise(StepCm, "NsxError", exc)
    /\ UNCHANGED <<store, run, creates, prevCall, elapsed, fetches, vfy>>


(***************************************************************************)
(* Step 2 (lines 58-66): check_compute_manager_status.  A status fetch     *)
(* takes no time; time advances by the sleeps.                             *)
(***************************************************************************)
\* time.sleep(10), in all three polls.
Interval == 10
\* The timeout the script passes (120 in the code).
CmTimeout == 20

ConnectionStatuses == {"UP", "DOWN", "CONNECTING", "UNKNOWN"}

\* Answers to GET fabric/compute-managers/{id}/status.
CmStatusAnswers ==
    Affordable({ [Plain EXCEPT !.status = st] : st \in ConnectionStatuses }
               \cup Failure)

\* Lines 234-236: connection_status == "UP" of a fetch that did not raise.
IsUpLoose(a) == a.ok
IsUp(a) == a.ok /\ a.status = "UP"

\* compute_manager["id"] raises KeyError inside the try of line 60: the
\* script prints a warning and goes on.
CmStatusSkip ==
    /\ pc = "cm_status"
    /\ ~loc.compute_manager.hasId
    /\ Goto("ipblock_lookup")
    /\ UNCHANGED <<store, run, loc, exc, last, creates, call, prevCall,
                   anomalies, elapsed, fetches, vfy>>

\* Lines 226-253: one iteration of the loop, under the timeout given.
CmStatusPollWithin(timeout) ==
    /\ pc = "cm_status"
    /\ loc.compute_manager.hasId
    /\ elapsed < timeout
    /\ \E a \in CmStatusAnswers :
          /\ anomalies' = anomalies + a.cost
          /\ last' = Request(StepCmStatus, "GET", "fabric/compute-managers/status", FALSE, a)
          /\ fetches' = fetches + 1
          /\ IF IsUp(a)
             THEN /\ elapsed' = elapsed
                  /\ Goto("ipblock_lookup")
             ELSE /\ elapsed' = elapsed + Interval
                  /\ Goto("cm_status")
    /\ UNCHANGED <<store, run, loc, exc, creates, call, prevCall, vfy>>

CmStatusPoll == CmStatusPollWithin(CmTimeout)

\* Lines 255-276: the final check; it returns whatever it gets.
CmStatusFinalWithin(timeout) ==
    /\ pc = "cm_status"
    /\ loc.compute_manager.hasId
    /\ elapsed >= timeout
    /\ \E a \in CmStatusAnswers :
          /\ anomalies' = anomalies + a.cost
          /\ last' = Request(StepCmStatus, "GET", "fabric/compute-managers/status", FALSE, a)
          /\ fetches' = fetches + 1
          /\ Goto("ipblock_lookup")
    /\ UNCHANGED <<store, run, loc, exc, creates, call, prevCall, elapsed, vfy>>

CmStatusFinal == CmStatusFinalWithin(CmTimeout)

(***************************************************************************)
(* Step 3 (line 70): create_ip_block.                                      *)
(***************************************************************************)
IsDuplicate(msg) ==
    ContainsLower(msg, "already exists") \/ ContainsLower(msg, "duplicate")

\* get_existing_ip_block: the first block of that display name, its path
\* filled in; None on any exception.
get_existing_ip_block(a) ==
    IF a.ok THEN SetPath(FirstMatch("ipblock", NameOf("ipblock"), a.shape), IpBlockPrefix)
    ELSE None

\* Lines 305-311.
IpBlockLookup ==
    /\ pc = "ipblock_lookup"
    /\ \E a \in ReadAnswers("ipblock") :
          LET existing_block == get_existing_ip_block(a) IN
          /\ anomalies' = anomalies + a.cost
          /\ last' = Request(StepIpBlock, "GET", "pools/ip-blocks", FALSE, a)
          /\ IF existing_block.ref # 0
             THEN /\ loc' = [loc EXCEPT !.ip_block = SetPath(existing_block, IpBlockPrefix)]
                  /\ call' = [call EXCEPT !["ipblock"] =
                                [ref |-> existing_block.ref, lookup |-> "hit", via |-> "lookup"]]
                  /\ Goto("ippool_lookup")
             ELSE /\ loc' = loc
                  /\ call' = [call EXCEPT !["ipblock"].lookup = LookupResult(a, existing_block)]
                  /\ Goto("ipblock_post")
    /\ elapsed' = 0
    /\ fetches' = 0
    /\ UNCHANGED <<store, run, exc, creates, prevCall, vfy>>

\* Lines 319-339: the POST and the classification of its error.
IpBlockPost ==
    /\ pc = "ipblock_post"
    /\ \E a \in WriteAnswers("ipblock", Named("ipblock", NameOf("ipblock")) # {}) :
          /\ anomalies' = anomalies + a.cost
          /\ last' = Request(StepIpBlock, "POST", "pools/ip-blocks",
                             Named("ipblock", NameOf("ipblock")) # {}, a)
          /\ creates' = [creates EXCEPT !["ipblock"] = @ + 1]
          /\ IF a.ok
             THEN /\ store' = Posted("ipblock", NameOf("ipblock"))
                  /\ loc' = [loc EXCEPT !.ip_block =
                                SetPath(Raw("ipblock", PostedRef("ipblock"),
                                            Uuid(PostedRef("ipblock")), a.shape),
                                        IpBlockPrefix)]
                  /\ call' = [call EXCEPT !["ipblock"].ref = PostedRef("ipblock"),
                                          !["ipblock"].via = "create"]
                  /\ exc' = exc
                  /\ Goto("ippool_lookup")
             ELSE /\ store' = store
                  /\ loc' = loc
                  /\ call' = call
                  /\ IF IsDuplicate(a.msg)
                     THEN exc' = a.msg /\ Goto("ipblock_relookup")
                     ELSE exc' = exc /\ Raise(StepIpBlock, "NsxError", a.msg)
    /\ UNCHANGED <<run, prevCall, elapsed, fetches, vfy>>

\* Lines 331-339: the lookup after a duplicate error.
IpBlockRelookup ==
    /\ pc = "ipblock_relookup"
    /\ \E a \in ReadAnswers("ipblock") :
          LET existing_block == get_existing_ip_block(a) IN
          /\ anomalies' = anomalies + a.cost
          /\ last' = Request(StepIpBlock, "GET", "pools/ip-blocks", FALSE, a)
          /\ IF existing_block.ref # 0
             THEN /\ loc' = [loc EXCEPT !.ip_block = SetPath(existing_block, IpBlockPrefix)]
                  /\ call' = [call EXCEPT !["ipblock"].ref = existing_block.ref,
                                          !["ipblock"].via = "recover"]
                  /\ exc' = exc
                  /\ Goto("ippool_lookup")
             ELSE /\ loc' = loc
                  /\ call' = call
                  /\ exc' = exc
                  /\ Raise(StepIpBlock, "NsxError", exc)
    /\ UNCHANGED <<store, run, creates, prevCall, elapsed, fetches, vfy>>

(***************************************************************************)
(* Step 4 (line 74): create_ip_pool.                                       *)
(***************************************************************************)
\* get_existing_ip_pool
get_existing_ip_pool_blind(a) == None
get_existing_ip_pool(a) ==
    IF a.ok THEN SetPath(FirstMatch("ippool", NameOf("ippool"), a.shape), IpPoolPrefix)
    ELSE None

\* Lines 367-370.
IpPoolLookup ==
    /\ pc = "ippool_lookup"
    /\ \E a \in ReadAnswers("ippool") :
          LET existing_pool == get_existing_ip_pool(a) IN
          /\ anomalies' = anomalies + a.cost
          /\ last' = Request(StepIpPool, "GET", "infra/ip-pools", FALSE, a)
          /\ IF existing_pool.ref # 0
             THEN /\ loc' = [loc EXCEPT !.ip_pool = existing_pool]
                  /\ call' = [call EXCEPT !["ippool"] =
                                [ref |-> existing_pool.ref, lookup |-> "hit", via |-> "lookup"]]
                  /\ Goto("subnet_list")
             ELSE /\ loc' = loc
                  /\ call' = [call EXCEPT !["ippool"].lookup = LookupResult(a, existing_pool)]
                  /\ Goto("ippool_put")
    /\ UNCHANGED <<store, run, exc, creates, prevCall, elapsed, fetches, vfy>>

\* Lines 374-391: the PUT at the slug of the display name.
IpPoolPut ==
    /\ pc = "ippool_put"
    /\ LET pool_id == Slug(NameOf("ippool")) IN
       \E a \in WriteAnswers("ippool", WithId("ippool", pool_id) # {}) :
          /\ anomalies' = anomalies + a.cost
          /\ last' = Request(StepIpPool, "PUT", "infra/ip-pools",
                             WithId("ippool", pool_id) # {}, a)
          /\ creates' = [creates EXCEPT !["ippool"] = @ + 1]
          /\ IF a.ok
             THEN /\ store' = Put("ippool", NameOf("ippool"), pool_id)
                  /\ loc' = [loc EXCEPT !.ip_pool =
                                SetPath(Raw("ippool", PutRef("ippool", pool_id), pool_id, a.shape),
                                        IpPoolPrefix)]
                  /\ call' = [call EXCEPT !["ippool"].ref = PutRef("ippool", pool_id),
                                          !["ippool"].via = "create"]
                  /\ exc' = exc
                  /\ Goto("subnet_list")
             ELSE /\ store' = store
                  /\ loc' = loc
                  /\ call' = call
                  /\ IF IsDuplicate(a.msg)
                     THEN exc' = a.msg /\ Goto("ippool_relookup")
                     ELSE exc' = exc /\ Raise(StepIpPool, "NsxError", a.msg)
    /\ UNCHANGED <<run, prevCall, elapsed, fetches, vfy>>

\* Lines 388-391.
IpPoolRelookup ==
    /\ pc = "ippool_relookup"
    /\ \E a \in ReadAnswers("ippool") :
          LET existing_pool == get_existing_ip_pool(a) IN
          /\ anomalies' = anomalies + a.cost
          /\ last' = Request(StepIpPool, "GET", "infra/ip-pools", FALSE, a)
          /\ IF existing_pool.ref # 0
             THEN /\ loc' = [loc EXCEPT !.ip_pool = existing_pool]
                  /\ call' = [call EXCEPT !["ippool"].ref = existing_pool.ref,
                                          !["ippool"].via = "recover"]
                  /\ exc' = exc
                  /\ Goto("subnet_list")
             ELSE /\ loc' = loc
                  /\ call' = call
                  /\ exc' = exc
                  /\ Raise(StepIpPool, "NsxError", exc)
    /\ UNCHANGED <<store, run, creates, prevCall, elapsed, fetches, vfy>>


(***************************************************************************)
(* Step 5 (lines 76-86): the check of the two paths, create_block_subnet.  *)
(***************************************************************************)
\* path.split("/")[-1]
LastSegment(path) == IF path = <<>> THEN "" ELSE path[Len(path)]

\* subnet_id = f"subnet-{pool_id}"
SubnetId(pool_path) == "subnet-" \o LastSegment(pool_path)

\* Lines 79-84 ("path" not in ...), then line 402: the listing of the
\* pool's subnets, whose result is not used.
SubnetList ==
    /\ pc = "subnet_list"
    /\ IF ~loc.ip_pool.hasPath
       THEN /\ Raise(StepSubnet, "ValueError", {"IP Pool object missing 'path' key"})
            /\ UNCHANGED <<last, anomalies>>
       ELSE IF ~loc.ip_block.hasPath
       THEN /\ Raise(StepSubnet, "ValueError", {"IP Block object missing 'path' key"})
            /\ UNCHANGED <<last, anomalies>>
       ELSE \E a \in Affordable({Plain} \cup Failure) :
               /\ anomalies' = anomalies + a.cost
               /\ last' = Request(StepSubnet, "GET", "infra/ip-pools/ip-subnets", FALSE, a)
               /\ IF a.ok THEN Goto("subnet_check")
                  ELSE Raise(StepSubnet, "NsxError", a.msg)
    /\ UNCHANGED <<store, run, loc, exc, creates, call, prevCall, elapsed,
                   fetches, vfy>>

\* Lines 418-443: the GET of the subnet itself; status 200 means it
\* exists, any exception that it does not.
SubnetCheck ==
    /\ pc = "subnet_check"
    /\ \E a \in ReadAnswers("subnet") :
          LET check_response ==
                  IF a.ok THEN GetById("subnet", SubnetId(loc.ip_pool.path), a.shape)
                  ELSE None
              subnet_exists == check_response.ref # 0
          IN
          /\ anomalies' = anomalies + a.cost
          /\ last' = Request(StepSubnet, "GET", "infra/ip-pools/ip-subnets/id", FALSE, a)
          /\ IF subnet_exists THEN Goto("uplink_get") ELSE Goto("subnet_put")
    /\ UNCHANGED <<store, run, loc, exc, creates, call, prevCall, elapsed,
                   fetches, vfy>>

\* Lines 431-439.
SubnetPut ==
    /\ pc = "subnet_put"
    /\ LET subnet_id == SubnetId(loc.ip_pool.path) IN
       \E a \in Affordable({Plain} \cup Failure) :
          /\ anomalies' = anomalies + a.cost
          /\ last' = Request(StepSubnet, "PUT", "infra/ip-pools/ip-subnets/id",
                             WithId("subnet", subnet_id) # {}, a)
          /\ creates' = [creates EXCEPT !["subnet"] = @ + 1]
          /\ IF a.ok
             THEN /\ store' = Put("subnet", subnet_id, subnet_id)
                  /\ Goto("uplink_get")
             ELSE /\ store' = store
                  /\ Raise(StepSubnet, "NsxError", a.msg)
    /\ UNCHANGED <<run, loc, exc, call, prevCall, elapsed, fetches, vfy>>

(***************************************************************************)
(* Step 6 (line 90): create_uplink_host_switch_profile.                    *)
(***************************************************************************)
\* Lines 448-456: the GET at the fixed id; nothing catches its error.
UplinkGet ==
    /\ pc = "uplink_get"
    /\ \E a \in ReadAnswers("uplink") :
          LET existing_profile ==
                  IF a.ok THEN GetById("uplink", "hsp", a.shape) ELSE None
          IN
          /\ anomalies' = anomalies + a.cost
          /\ last' = Request(StepUplink, "GET", "infra/host-switch-profiles/hsp", FALSE, a)
          /\ IF ~a.ok
             THEN /\ loc' = loc
                  /\ call' = [call EXCEPT !["uplink"].lookup = "error"]
                  /\ Raise(StepUplink, "NsxError", a.msg)
             ELSE IF existing_profile.ref # 0 /\ existing_profile.hasId
             THEN /\ loc' = [loc EXCEPT !.uplink_profile = existing_profile]
                  /\ call' = [call EXCEPT !["uplink"] =
                                [ref |-> existing_profile.ref, lookup |-> "hit", via |-> "lookup"]]
                  /\ Goto("tz_overlay")
             ELSE /\ loc' = loc
                  /\ call' = [call EXCEPT !["uplink"].lookup = "miss"]
                  /\ Goto("uplink_put")
    /\ UNCHANGED <<store, run, exc, creates, prevCall, elapsed, fetches, vfy>>

\* Lines 462-479: the PUT; nothing catches its error.
UplinkPut ==
    /\ pc = "uplink_put"
    /\ \E a \in WriteAnswers("uplink", WithId("uplink", "hsp") # {}) :
          /\ anomalies' = anomalies + a.cost
          /\ last' = Request(StepUplink, "PUT", "infra/host-switch-profiles/hsp",
                             WithId("uplink", "hsp") # {}, a)
          /\ creates' = [creates EXCEPT !["uplink"] = @ + 1]
          /\ IF a.ok
             THEN /\ store' = Put("uplink", NameOf("uplink"), "hsp")
                  /\ loc' = [loc EXCEPT !.uplink_profile =
                                Raw("uplink", PutRef("uplink", "hsp"), "hsp", a.shape)]
                  /\ call' = [call EXCEPT !["uplink"].ref = PutRef("uplink", "hsp"),
                                          !["uplink"].via = "create"]
                  /\ Goto("tz_overlay")
             ELSE /\ store' = store
                  /\ loc' = loc
                  /\ call' = call
                  /\ Raise(StepUplink, "NsxError", a.msg)
    /\ UNCHANGED <<run, exc, prevCall, elapsed, fetches, vfy>>

(***************************************************************************)
(* Step 7 (lines 92-95): get_transport_zone, twice.                        *)
(***************************************************************************)
OverlayZone == [display_name |-> "nsx-overlay-transportzone", tz_type |-> "OVERLAY_STANDARD", id |-> "tz-overlay"]
VlanZone == [display_name |-> "nsx-vlan-transportzone", tz_type |-> "VLAN_BACKED", id |-> "tz-vlan"]
\* Zones of the right name and the wrong type.
OverlayNamedVlan == [OverlayZone EXCEPT !.tz_type = "VLAN_BACKED", !.id = "tz-x1"]
VlanNamedOverlay == [VlanZone EXCEPT !.tz_type = "OVERLAY_STANDARD", !.id = "tz-x2"]

\* The transport zones a listing may return.
ZoneLists ==
    { <<OverlayZone, VlanZone>>,
      <<OverlayNamedVlan, OverlayZone, VlanNamedOverlay, VlanZone>>,
      <<OverlayNamedVlan, VlanZone>>,
      <<OverlayZone, VlanNamedOverlay>>,
      <<VlanZone>>,
      <<>> }

\* tz_type_mapping.get(transport_type, transport_type)
ExpectedTzType(transport_type) ==
    CASE transport_type = "OVERLAY" -> "OVERLAY_STANDARD"
      [] transport_type = "VLAN" -> "VLAN_BACKED"
      [] OTHER -> transport_type

\* Lines 497-503.
MatchingZonesByName(zones, display_name, transport_type) ==
    SelectSeq(zones, LAMBDA z : z.display_name = display_name)
MatchingZones(zones, display_name, transport_type) ==
    SelectSeq(zones, LAMBDA z : /\ z.display_name = display_name
                                /\ z.tz_type = ExpectedTzType(transport_type))

\* get_transport_zone, given the listing's answer and the zones it lists:
\* the step that follows is `next`, the zone is stored in variable `var`.
\* The request recorded carries the zones that were listed.
GetTransportZone(here, display_name, transport_type, var, next) ==
    /\ pc = here
    /\ \E a \in ReadAnswers("tz"), zones \in ZoneLists :
          LET matching_zones == MatchingZones(zones, display_name, transport_type) IN
          /\ anomalies' = anomalies + a.cost
          /\ last' = [step |-> StepTz, method |-> "GET", url |-> "transport-zones",
                       existed |-> FALSE, ok |-> a.ok, msg |-> a.msg, status |-> a.status,
                       zones |-> IF a.ok THEN zones ELSE <<>>]
          /\ IF ~a.ok
             THEN loc' = loc /\ Raise(StepTz, "NsxError", a.msg)
             ELSE IF Len(matching_zones) = 0
             THEN loc' = loc /\ Raise(StepTz, "ValueError", {"Transport Zone not found"})
             ELSE /\ loc' = [loc EXCEPT ![var] =
                               SetPath(Raw("tz", 1, matching_zones[1].id, a.shape),
                                       TransportZonePrefix)]
                  /\ Goto(next)
    /\ UNCHANGED <<store, run, exc, creates, call, prevCall, elapsed, fetches, vfy>>

TzOverlay ==
    GetTransportZone("tz_overlay", "nsx-overlay-transportzone", "OVERLAY", "overlay_tz", "tz_vlan")

TzVlanThenUplink ==
    GetTransportZone("tz_vlan", "nsx-vlan-transportzone", "VLAN", "vlan_tz", "uplink_get")

TzVlan ==
    GetTransportZone("tz_vlan", "nsx-vlan-transportzone", "VLAN", "vlan_tz", "dvs")


(***************************************************************************)
(* Step 8 (line 99): get_dvs_from_compute_manager.                         *)
(***************************************************************************)
\* The results a search may return.
SearchLists ==
    { <<>>,
      << [resource_type |-> "DistributedVirtualSwitch", uuid |-> ""],
         [resource_type |-> "DistributedVirtualSwitch", uuid |-> "dvs-2"] >>,
      << [resource_type |-> "VirtualSwitch", uuid |-> "vs-1"] >> }

\* Lines 549-558: the uuid of the first switch result that has one.
FirstDvs(results) ==
    LET hits == SelectSeq(results, LAMBDA r : /\ r.resource_type = "DistributedVirtualSwitch"
                                              /\ r.uuid # "")
    IN IF Len(hits) = 0 THEN "DSwitch" ELSE hits[1].uuid

\* compute_manager["id"] is evaluated at line 99, outside any try.
GetDvs ==
    /\ pc = "dvs"
    /\ IF ~loc.compute_manager.hasId
       THEN /\ loc' = loc
            /\ Raise(StepDvs, "KeyError", {"'id'"})
            /\ UNCHANGED <<last, anomalies>>
       ELSE \E a \in Affordable({Plain} \cup Failure), results \in SearchLists :
               /\ anomalies' = anomalies + a.cost
               /\ last' = Request(StepDvs, "GET", "search", FALSE, a)
               /\ loc' = [loc EXCEPT !.vsphere_dvs_id =
                             IF a.ok THEN FirstDvs(results) ELSE "DSwitch"]
               /\ Goto("tnp_lookup")
    /\ UNCHANGED <<store, run, exc, creates, call, prevCall, elapsed, fetches, vfy>>

(***************************************************************************)
(* Step 9 (lines 103-110): create_transport_node_profile.                  *)
(***************************************************************************)
\* get_existing_transport_node_profile
get_existing_transport_node_profile(a) ==
    IF a.ok THEN FirstMatch("tnp", NameOf("tnp"), a.shape) ELSE None

\* The arguments of lines 105-108 are subscripts: a descriptor without
\* "path" raises KeyError before the function is entered.
TnpArgumentsPresent ==
    /\ loc.ip_pool.hasPath
    /\ loc.overlay_tz.hasPath
    /\ loc.vlan_tz.hasPath
    /\ loc.uplink_profile.hasPath

\* Lines 578-583.
TnpLookup ==
    /\ pc = "tnp_lookup"
    /\ IF ~TnpArgumentsPresent
       THEN /\ loc' = loc
            /\ call' = call
            /\ Raise(StepTnp, "KeyError", {"'path'"})
            /\ UNCHANGED <<last, anomalies>>
       ELSE \E a \in ReadAnswers("tnp") :
               LET existing_tnp == get_existing_transport_node_profile(a) IN
               /\ anomalies' = anomalies + a.cost
               /\ last' = Request(StepTnp, "GET", "infra/host-transport-node-profiles", FALSE, a)
               /\ IF existing_tnp.ref # 0
                  THEN /\ loc' = Keep([loc EXCEPT !.tnp = existing_tnp], AfterTnp)
                       /\ call' = [call EXCEPT !["tnp"] =
                                     [ref |-> existing_tnp.ref, lookup |-> "hit", via |-> "lookup"]]
                       /\ Goto("cc_get")
                  ELSE /\ loc' = loc
                       /\ call' = [call EXCEPT !["tnp"].lookup = LookupResult(a, existing_tnp)]
                       /\ Goto("tnp_put")
    /\ UNCHANGED <<store, run, exc, creates, prevCall, elapsed, fetches, vfy>>

\* Lines 621-636: the PUT at the display name.
TnpPut ==
    /\ pc = "tnp_put"
    /\ \E a \in WriteAnswers("tnp", WithId("tnp", NameOf("tnp")) # {}) :
          /\ anomalies' = anomalies + a.cost
          /\ last' = Request(StepTnp, "PUT", "infra/host-transport-node-profiles",
                             WithId("tnp", NameOf("tnp")) # {}, a)
          /\ creates' = [creates EXCEPT !["tnp"] = @ + 1]
          /\ IF a.ok
             THEN /\ store' = Put("tnp", NameOf("tnp"), NameOf("tnp"))
                  /\ loc' = Keep([loc EXCEPT !.tnp =
                                Raw("tnp", PutRef("tnp", NameOf("tnp")), NameOf("tnp"), a.shape)],
                                  AfterTnp)
                  /\ call' = [call EXCEPT !["tnp"].ref = PutRef("tnp", NameOf("tnp")),
                                          !["tnp"].via = "create"]
                  /\ exc' = exc
                  /\ Goto("cc_get")
             ELSE /\ store' = store
                  /\ loc' = loc
                  /\ call' = call
                  /\ IF IsDuplicate(a.msg)
                     THEN exc' = a.msg /\ Goto("tnp_relookup")
                     ELSE exc' = exc /\ Raise(StepTnp, "NsxError", a.msg)
    /\ UNCHANGED <<run, prevCall, elapsed, fetches, vfy>>

\* Lines 633-636.
TnpRelookup ==
    /\ pc = "tnp_relookup"
    /\ \E a \in ReadAnswers("tnp") :
          LET existing_tnp == get_existing_transport_node_profile(a) IN
          /\ anomalies' = anomalies + a.cost
          /\ last' = Request(StepTnp, "GET", "infra/host-transport-node-profiles", FALSE, a)
          /\ IF existing_tnp.ref # 0
             THEN /\ loc' = Keep([loc EXCEPT !.tnp = existing_tnp], AfterTnp)
                  /\ call' = [call EXCEPT !["tnp"].ref = existing_tnp.ref,
                                          !["tnp"].via = "recover"]
                  /\ exc' = exc
                  /\ Goto("cc_get")
             ELSE /\ loc' = loc
                  /\ call' = call
                  /\ exc' = exc
                  /\ Raise(StepTnp, "NsxError", exc)
    /\ UNCHANGED <<store, run, creates, prevCall, elapsed, fetches, vfy>>

(***************************************************************************)
(* Step 10 (line 114): get_compute_collection.                             *)
(***************************************************************************)
\* The external_id of the cluster named "Cluster".
ClusterId == "domain-c8"

\* Lines 643-651: results[0], ValueError when there is none.  In the
\* descriptor, id stands for the key "external_id".
GetComputeCollection ==
    /\ pc = "cc_get"
    /\ \E a \in ReadAnswers("cc"), present \in BOOLEAN :
          /\ anomalies' = anomalies + a.cost
          /\ last' = Request(StepCc, "GET", "fabric/compute-collections", FALSE, a)
          /\ IF ~a.ok
             THEN loc' = loc /\ Raise(StepCc, "NsxError", a.msg)
             ELSE IF ~present
             THEN loc' = loc /\ Raise(StepCc, "ValueError", {"Compute Collection 'Cluster' not found"})
             ELSE /\ loc' = [loc EXCEPT !.compute_collection = Raw("cc", 1, ClusterId, a.shape)]
                  /\ Goto("htnc_lookup")
    /\ UNCHANGED <<store, run, exc, creates, call, prevCall, elapsed, fetches, vfy>>

(***************************************************************************)
(* Step 11 (lines 116-122): create_host_transport_node_collection.         *)
(***************************************************************************)
\* get_existing_host_transport_node_collection
get_existing_host_transport_node_collection(a) ==
    IF a.ok THEN FirstMatch("htnc", NameOf("htnc"), a.shape) ELSE None

\* compute_collection["external_id"] (line 121) raises KeyError when the
\* key is missing; then lines 680-685.
HtncLookup ==
    /\ pc = "htnc_lookup"
    /\ IF ~loc.compute_collection.hasId
       THEN /\ loc' = loc
            /\ call' = call
            /\ Raise(StepHtnc, "KeyError", {"'external_id'"})
            /\ UNCHANGED <<last, anomalies>>
       ELSE \E a \in ReadAnswers("htnc") :
               LET existing_htnc == get_existing_host_transport_node_collection(a) IN
               /\ anomalies' = anomalies + a.cost
               /\ last' = Request(StepHtnc, "GET", "transport-node-collections", FALSE, a)
               /\ IF existing_htnc.ref # 0
                  THEN /\ loc' = [loc EXCEPT !.htnc = existing_htnc]
                       /\ call' = [call EXCEPT !["htnc"] =
                                     [ref |-> existing_htnc.ref, lookup |-> "hit", via |-> "lookup"]]
                       /\ Goto("htnc_path")
                  ELSE /\ loc' = loc
                       /\ call' = [call EXCEPT !["htnc"].lookup = LookupResult(a, existing_htnc)]
                       /\ Goto("htnc_post")
    /\ UNCHANGED <<store, run, exc, creates, prevCall, elapsed, fetches, vfy>>

\* Lines 694-710.
HtncPost ==
    /\ pc = "htnc_post"
    /\ \E a \in WriteAnswers("htnc", Named("htnc", NameOf("htnc")) # {}) :
          /\ anomalies' = anomalies + a.cost
          /\ last' = Request(StepHtnc, "POST", "transport-node-collections",
                             Named("htnc", NameOf("htnc")) # {}, a)
          /\ creates' = [creates EXCEPT !["htnc"] = @ + 1]
          /\ IF a.ok
             THEN /\ store' = Posted("htnc", NameOf("htnc"))
                  /\ loc' = [loc EXCEPT !.htnc =
                                Raw("htnc", PostedRef("htnc"), Uuid(PostedRef("htnc")), a.shape)]
                  /\ call' = [call EXCEPT !["htnc"].ref = PostedRef("htnc"),
                                          !["htnc"].via = "create"]
                  /\ exc' = exc
                  /\ Goto("htnc_path")
             ELSE /\ store' = store
                  /\ loc' = loc
                  /\ call' = call
                  /\ IF IsDuplicate(a.msg)
                     THEN exc' = a.msg /\ Goto("htnc_relookup")
                     ELSE exc' = exc /\ Raise(StepHtnc, "NsxError", a.msg)
    /\ UNCHANGED <<run, prevCall, elapsed, fetches, vfy>>

\* Lines 705-710.
HtncRelookup ==
    /\ pc = "htnc_relookup"
    /\ \E a \in ReadAnswers("htnc") :
          LET existing_htnc == get_existing_host_transport_node_collection(a) IN
          /\ anomalies' = anomalies + a.cost
          /\ last' = Request(StepHtnc, "GET", "transport-node-collections", FALSE, a)
          /\ IF existing_htnc.ref # 0
             THEN /\ loc' = [loc EXCEPT !.htnc = existing_htnc]
                  /\ call' = [call EXCEPT !["htnc"].ref = existing_htnc.ref,
                                          !["htnc"].via = "recover"]
                  /\ exc' = exc
                  /\ Goto("htnc_path")
             ELSE /\ loc' = loc
                  /\ call' = call
                  /\ exc' = exc
                  /\ Raise(StepHtnc, "NsxError", exc)
    /\ UNCHANGED <<store, run, creates, prevCall, elapsed, fetches, vfy>>


(***************************************************************************)
(* Step 12 (lines 124-134): the realization path and                       *)
(* wait_for_htnc_realization.                                              *)
(***************************************************************************)
\* The timeout of wait_for_htnc_realization (300 in the code).
RealizeTimeout == 20

\* Lines 127-129: htnc.get("path") when it is truthy, else the path made
\* from htnc["id"].
RealizationPathFromId(htnc) == HtncPrefix \o <<htnc.id>>
RealizationPath(htnc) ==
    IF htnc.hasPath /\ htnc.path # <<>> THEN htnc.path ELSE HtncPrefix \o <<htnc.id>>

\* Lines 127-132: the realization path, or the script returns when the
\* descriptor has neither a path nor an id.
HtncPath ==
    /\ pc = "htnc_path"
    /\ LET htnc == loc.htnc
           no_path == ~htnc.hasPath \/ htnc.path = <<>>
       IN IF no_path /\ ~htnc.hasId
          THEN /\ loc' = loc
               /\ Return
          ELSE /\ loc' = Keep([loc EXCEPT !.htnc_path = RealizationPath(htnc)], AfterHtnc)
               /\ Goto("realize")
    /\ UNCHANGED <<store, run, exc, last, creates, call, prevCall, anomalies,
                   elapsed, fetches, vfy>>

RealizationStates == {"REALIZED", "UNREALIZED"}

\* Line 728: state.get("state") == "REALIZED".
IsRealizedAny(a) == a.ok
IsRealized(a) == a.ok /\ a.status = "REALIZED"

\* Lines 718-732: one iteration; nothing catches the error of the fetch.
RealizePoll ==
    /\ pc = "realize"
    /\ elapsed < RealizeTimeout
    /\ \E a \in Affordable({ [Plain EXCEPT !.status = st] : st \in RealizationStates }
                           \cup Failure) :
          /\ anomalies' = anomalies + a.cost
          /\ last' = Request(StepRealize, "GET", "infra/realized-state/realized-entity", FALSE, a)
          /\ fetches' = fetches + 1
          /\ IF ~a.ok
             THEN elapsed' = elapsed /\ Raise(StepRealize, "NsxError", a.msg)
             ELSE IF IsRealized(a)
             THEN elapsed' = elapsed /\ Goto("verify")
             ELSE elapsed' = elapsed + Interval /\ Goto("realize")
    /\ UNCHANGED <<store, run, loc, exc, creates, call, prevCall, vfy>>

\* Lines 734-736.
RealizeNeverTimedOut ==
    /\ pc = "realize"
    /\ elapsed >= RealizeTimeout
    /\ FALSE
    /\ UNCHANGED vars
RealizeTimedOut ==
    /\ pc = "realize"
    /\ elapsed >= RealizeTimeout
    /\ Raise(StepRealize, "TimeoutError", {"Timeout: Host Transport Node Collection not realized"})
    /\ UNCHANGED <<store, run, loc, exc, last, creates, call, prevCall,
                   anomalies, elapsed, fetches, vfy>>

(***************************************************************************)
(* Step 13 (line 138): verify_nsx_configuration_status.                    *)
(***************************************************************************)
\* max_attempts (60 in the code).
MaxAttempts == 2

Esx1 == [id |-> "tn-1", display_name |-> "esx1", compute_collection_id |-> ClusterId,
         nested |-> ""]
\* A host whose compute collection is only in node_deployment_info.
Esx2 == [id |-> "tn-2", display_name |-> "esx2", compute_collection_id |-> "",
         nested |-> ClusterId]
\* Nodes of another compute collection.
Edge == [id |-> "tn-3", display_name |-> "edge", compute_collection_id |-> "domain-c9",
         nested |-> ""]
Esx4 == [id |-> "tn-4", display_name |-> "esx4", compute_collection_id |-> "domain-c9",
         nested |-> ClusterId]

\* The transport nodes a listing may return.
NodeLists == { <<>>, <<Edge, Esx4>>, <<Esx1>>, <<Edge, Esx2>>, <<Esx1, Esx2>> }

\* Lines 756-766.
RelevantNodes(nodes, compute_collection_id) ==
    SelectSeq(nodes, LAMBDA node :
        LET node_cc_id == IF node.compute_collection_id = "" /\ node.nested # ""
                          THEN node.nested
                          ELSE node.compute_collection_id
        IN node_cc_id = compute_collection_id)

\* The body of a node's status: "status" and, under "node_status",
\* "host_node_deployment_status" ("": the key is missing).
StatusData(st, dep) ==
    [bound |-> TRUE, hasStatus |-> st # "", status |-> st,
     hasDeployment |-> dep # "", deployment |-> dep]

\* The bodies a node's status fetch may return: in a whole run three
\* representative ones, in the specification of this function alone all.
CoarseStatusDatas ==
    { StatusData("UP", "INSTALL_SUCCESSFUL"),
      StatusData("UP", "INSTALL_IN_PROGRESS"),
      StatusData("UP", "INSTALL_FAILED") }

FineStatusDatas ==
    { StatusData(st, dep) :
        st \in {"UP", "DOWN", "DEGRADED"},
        dep \in {"", "INSTALL_SUCCESSFUL", "INSTALL_IN_PROGRESS", "INSTALL_FAILED"} }
    \cup { StatusData("", "INSTALL_SUCCESSFUL") }

StatusDatas == IF vfy.fine THEN FineStatusDatas ELSE CoarseStatusDatas

\* Answers to GET transport-nodes/{id}/status; the code does not read the
\* message of its error.
NodeAnswers ==
    { [ok |-> TRUE, data |-> sd, cost |-> 0] : sd \in StatusDatas }
    \cup { [ok |-> FALSE, data |-> Unbound, cost |-> 1] }

RECURSIVE TotalCost(_, _)
TotalCost(answers, n) == IF n = 0 THEN 0 ELSE answers[n].cost + TotalCost(answers, n - 1)

\* "ERROR" in deployment_status or "FAIL" in deployment_status
HasFailureMarker(dep) == dep \in {"INSTALL_FAILED", "HOST_ERROR"}

\* Lines 805-863: what one node adds to the accumulators of the attempt,
\* given the status_data in force.
ClassifiedPreparing(acc, name, sd) ==
    [acc EXCEPT !.preparing_hosts = Append(@, name), !.all_ready = FALSE]
Classified(acc, name, sd) ==
    IF ~sd.hasStatus THEN acc
    ELSE IF sd.hasDeployment
    THEN IF sd.deployment = "INSTALL_SUCCESSFUL" /\ sd.status = "UP" THEN acc
         ELSE IF sd.deployment = "INSTALL_SUCCESSFUL"
         THEN [acc EXCEPT !.preparing_hosts = Append(@, name), !.all_ready = FALSE]
         ELSE IF HasFailureMarker(sd.deployment)
         THEN [acc EXCEPT !.failed_nodes = Append(@, name), !.all_ready = FALSE]
         ELSE [acc EXCEPT !.preparing_hosts = Append(@, name), !.all_ready = FALSE]
    ELSE IF sd.status = "UP" THEN acc
         ELSE IF sd.status = "DOWN"
         THEN [acc EXCEPT !.failed_nodes = Append(@, name), !.all_ready = FALSE]
         ELSE [acc EXCEPT !.preparing_hosts = Append(@, name), !.all_ready = FALSE]

\* Lines 786-877: the loop over the relevant nodes from node i on.  A fetch
\* that raises leaves status_data as it was; reading it while it was never
\* bound raises UnboundLocalError (unbound), which ends the loop.
RECURSIVE ForEachNode(_, _, _, _)
ForEachNode(acc, nodes, answers, i) ==
    IF i > Len(nodes) THEN acc
    ELSE LET name == nodes[i].display_name
             fetched ==
                 IF answers[i].ok
                 THEN [acc EXCEPT !.status_data = answers[i].data, !.fetched = i]
                 ELSE [acc EXCEPT !.failed_nodes = Append(@, name),
                                  !.preparing_hosts = Append(@, name),
                                  !.all_ready = FALSE, !.fetched = i]
         IN IF ~fetched.status_data.bound
            THEN [fetched EXCEPT !.unbound = TRUE]
            ELSE ForEachNode(Classified(fetched, name, fetched.status_data),
                             nodes, answers, i + 1)

\* Lines 782-784: the accumulators at the start of an attempt.
Accumulators(status_data) ==
    [all_ready |-> TRUE, failed_nodes |-> <<>>, preparing_hosts |-> <<>>,
     status_data |-> status_data, fetched |-> 0, unbound |-> FALSE]

SeqToSet(q) == { q[j] : j \in 1..Len(q) }

\* What an attempt ends with: lines 768-776 and 879-903 raise or return
\* inside the try, lines 905-915 handle what was raised.  "retry" is
\* time.sleep(10) and the next attempt.
RaisedAtOnce(attempt, type, msg) == [then |-> "raise", type |-> type, msg |-> msg]
Raised(attempt, type, msg) ==
    IF ContainsLower(msg, "failed") \/ ContainsLower(msg, "error")
    THEN [then |-> "raise", type |-> type, msg |-> msg]
    ELSE IF attempt < MaxAttempts
    THEN [then |-> "retry", type |-> type, msg |-> msg]
    ELSE [then |-> "raise", type |-> type, msg |-> msg]

\* Lines 768-776: no node of the compute collection is listed.
NoNodesFoundAtOnce(attempt) ==
    Raised(MaxAttempts, "Exception", {"No transport nodes found for compute collection"})
NoNodesFound(attempt) ==
    IF attempt < MaxAttempts
    THEN [then |-> "retry", type |-> "", msg |-> {}]
    ELSE Raised(attempt, "Exception", {"No transport nodes found for compute collection"})

AttemptOutcome(attempt, a, relevant_nodes, acc) ==
    IF ~a.ok THEN Raised(attempt, "NsxError", a.msg)
    ELSE IF Len(relevant_nodes) = 0
    THEN NoNodesFound(attempt)
    ELSE IF acc.unbound
    THEN Raised(attempt, "UnboundLocalError",
                {"cannot access local variable 'status_data'"})
    ELSE IF Len(acc.failed_nodes) > 0
    THEN Raised(attempt, "Exception",
                {"Host preparation failed for"} \cup SeqToSet(acc.failed_nodes))
    ELSE IF acc.all_ready
    THEN [then |-> "return", type |-> "", msg |-> {}]
    ELSE IF attempt < MaxAttempts
    THEN [then |-> "retry", type |-> "", msg |-> {}]
    ELSE Raised(attempt, "Exception", {"Timeout waiting for host preparation"})

\* The errors of the listing: the handler of lines 905-915 reads their text.
ListingErrors ==
    { e \in ErrAnswers : e.msg \in {MsgFailed, MsgTimedOut, MsgCodeOther} }
    \cup (IF vfy.fine
          THEN { [ok |-> FALSE, msg |-> MsgServerError, shape |-> "bare", status |-> "",
                  cost |-> 1] }
          ELSE {})

\* The locals of the function after an attempt, with what the attempt saw:
\* the listing's answer, the relevant nodes, the answers of the status
\* fetches it made, and how many attempts so far found no relevant node.
Observed(attempt, a, relevant_nodes, answers, acc, nodes_ready) ==
    [vfy EXCEPT
        !.attempt = attempt,
        !.status_data = acc.status_data,
        !.listed = a.ok,
        !.relevant_nodes = relevant_nodes,
        !.fetched = acc.fetched,
        !.answers = [j \in 1..acc.fetched |-> answers[j]],
        !.nodes_ready = nodes_ready,
        !.all_ready = acc.all_ready,
        !.failed_nodes = acc.failed_nodes,
        !.preparing_hosts = acc.preparing_hosts,
        !.empties = IF a.ok /\ Len(relevant_nodes) = 0 THEN @ + 1 ELSE @]

\* One attempt (one iteration of the while loop, lines 747-915): the
\* listing, the status fetch of each relevant node, the decision.  The
\* accumulators are set anew in every attempt before they are read
\* (lines 756, 782-784); status_data is not.  What the attempt saw is kept
\* in vfy when vfy.fine.
VerifyAttempt ==
    /\ pc = "verify"
    /\ vfy.attempt < MaxAttempts
    /\ \E a \in Affordable({Plain} \cup ListingErrors), nodes \in NodeLists :
          LET attempt == vfy.attempt + 1
              relevant_nodes ==
                  IF a.ok THEN RelevantNodes(nodes, loc.compute_collection.id) ELSE <<>>
          IN \E answers \in [1..Len(relevant_nodes) -> NodeAnswers] :
                LET acc == ForEachNode(Accumulators(vfy.status_data), relevant_nodes,
                                       answers, 1)
                    out == AttemptOutcome(attempt, a, relevant_nodes, acc)
                    nodes_ready ==
                        /\ a.ok /\ Len(relevant_nodes) > 0
                        /\ \A j \in 1..Len(relevant_nodes) :
                              /\ answers[j].ok
                              /\ answers[j].data = StatusData("UP", "INSTALL_SUCCESSFUL")
                IN
                /\ anomalies + a.cost + TotalCost(answers, Len(relevant_nodes)) <= MaxAnomalies
                /\ anomalies' = anomalies + a.cost + TotalCost(answers, acc.fetched)
                /\ last' = [Request(StepVerify, "GET",
                                    IF acc.fetched > 0 THEN "transport-nodes/status"
                                    ELSE "transport-nodes", FALSE, a)
                              EXCEPT !.status = out.then]
                /\ vfy' = IF vfy.fine
                          THEN Observed(attempt, a, relevant_nodes, answers, acc, nodes_ready)
                          ELSE IF out.then = "retry"
                          THEN [vfy EXCEPT !.attempt = attempt,
                                           !.status_data = acc.status_data]
                          ELSE [vfy EXCEPT !.attempt = attempt,
                                           !.nodes_ready = nodes_ready]
                /\ IF out.then = "retry" THEN Goto("verify")
                   ELSE IF out.then = "return" THEN Return
                   ELSE Raise(StepVerify, out.type, out.msg)
    /\ elapsed' = 0 /\ fetches' = 0
    /\ UNCHANGED <<store, run, loc, exc, creates, call, prevCall>>

(***************************************************************************)
(* The program: runs of execute_config_script, one after the other.        *)
(***************************************************************************)
Next ==
    \/ StartRun
    \/ AcceptEula
    \/ CmThumbprint
    \/ CmLookup
    \/ CmPost
    \/ CmRelookup
    \/ CmRecover
    \/ CmStatusSkip
    \/ CmStatusPoll
    \/ CmStatusFinal
    \/ IpBlockLookup
    \/ IpBlockPost
    \/ IpBlockRelookup
    \/ IpPoolLookup
    \/ IpPoolPut
    \/ IpPoolRelookup
    \/ SubnetList
    \/ SubnetCheck
    \/ SubnetPut
    \/ UplinkGet
    \/ UplinkPut
    \/ TzOverlay
    \/ TzVlan
    \/ GetDvs
    \/ TnpLookup
    \/ TnpPut
    \/ TnpRelookup
    \/ GetComputeCollection
    \/ HtncLookup
    \/ HtncPost
    \/ HtncRelookup
    \/ HtncPath
    \/ RealizePoll
    \/ RealizeTimedOut
    \/ VerifyAttempt

Spec == Init /\ [][Next]_vars

\* The script is sequential and, every request returning and every sleep
\* ending, a run that has not ended takes its next step; starting a run is
\* up to the caller.
SpecLive == Spec /\ WF_vars(Next /\ run' = run)

(***************************************************************************)
(* verify_nsx_configuration_status alone, with every status body a node    *)
(* may answer with.  It starts in the state a first run over an empty      *)
(* fabric, every request answered nominally, calls the function in         *)
(* (line 138), and takes the attempts of the function from there.          *)
(***************************************************************************)
AtVerify ==
    /\ store = [k \in CreatedKinds |->
                  << [id |-> CASE k \in PostKinds -> Uuid(1)
                               [] k = "ippool" -> "ip-pool-vtep"
                               [] k = "subnet" -> "subnet-ip-pool-vtep"
                               [] k = "uplink" -> "hsp"
                               [] OTHER -> "tnp",
                      name |-> IF k = "subnet" THEN "subnet-ip-pool-vtep" ELSE NameOf(k)] >>]
    /\ run = 1
    /\ pc = "verify"
    /\ loc = [NoLocals EXCEPT
                 !.compute_collection = [ref |-> 1, hasId |-> TRUE, id |-> ClusterId,
                                         hasPath |-> FALSE, path |-> <<>>],
                 !.htnc = [ref |-> 1, hasId |-> TRUE, id |-> Uuid(1),
                           hasPath |-> FALSE, path |-> <<>>],
                 !.htnc_path = HtncPrefix \o <<Uuid(1)>>]
    /\ exc = {}
    /\ err = NoErr
    /\ last = [step |-> StepRealize, method |-> "GET",
               url |-> "infra/realized-state/realized-entity", existed |-> FALSE,
               ok |-> TRUE, msg |-> {}, status |-> "REALIZED"]
    /\ creates = [k \in CreatedKinds |-> 1]
    /\ call = [k \in CreateOrGetKinds |-> [ref |-> 1, lookup |-> "miss", via |-> "create"]]
    /\ prevCall = [k \in CreateOrGetKinds |-> NoCall]
    /\ prevOutcome = ""
    /\ anomalies = 0
    /\ elapsed = 0
    /\ fetches = 1

InitVerify ==
    /\ AtVerify
    /\ vfy = [NoVerify EXCEPT !.fine = TRUE]

NextVerify == VerifyAttempt

SpecVerify == InitVerify /\ [][NextVerify]_vars

(***************************************************************************)
(* check_compute_manager_status alone, under the timeout the script passes *)
(* (line 62), from the state a first run over an empty fabric calls it in  *)
(* after the compute manager was registered.                               *)
(***************************************************************************)
CmStatusTimeout == 120

AtCmStatus ==
    /\ store = [EmptyStore EXCEPT !["cm"] = << [id |-> Uuid(1), name |-> NameOf("cm")] >>]
    /\ run = 1
    /\ pc = "cm_status"
    /\ loc = [NoLocals EXCEPT
                 !.ff_component_wait_for_status = "true",
                 !.compute_manager = [ref |-> 1, hasId |-> TRUE, id |-> Uuid(1),
                                      hasPath |-> FALSE, path |-> <<>>]]
    /\ exc = {}
    /\ err = NoErr
    /\ last = [step |-> StepCm, method |-> "POST", url |-> "fabric/compute-managers",
               existed |-> FALSE, ok |-> TRUE, msg |-> {}, status |-> ""]
    /\ creates = [k \in CreatedKinds |-> IF k = "cm" THEN 1 ELSE 0]
    /\ call = [k \in CreateOrGetKinds |->
                 IF k = "cm" THEN [ref |-> 1, lookup |-> "miss", via |-> "create"]
                 ELSE NoCall]
    /\ prevCall = [k \in CreateOrGetKinds |-> NoCall]
    /\ prevOutcome = ""
    /\ anomalies = 0
    /\ elapsed = 0
    /\ fetches = 0
    /\ vfy = NoVerify

InitCmStatus == AtCmStatus

NextCmStatus ==
    \/ CmStatusPollWithin(CmStatusTimeout)
    \/ CmStatusFinalWithin(CmStatusTimeout)

SpecCmStatus == InitCmStatus /\ [][NextCmStatus]_vars

(***************************************************************************)
(* Properties.                                                             *)
(***************************************************************************)
\* The fabric holds no resource but those the program provisions: it was
\* empty when the first run started.
NoForeign ==
    \A k \in CreatedKinds : \A i \in 1..Len(store[k]) : store[k][i].name # "other"

\* C1: for every create-or-get kind, two calls in consecutive runs that both
\* return a descriptor return the same remote resource, and a second call
\* whose lookup found the resource issues no create request.
C1_Idempotent ==
    \A k \in CreateOrGetKinds :
        (prevCall[k].ref # 0 /\ call[k].ref # 0) =>
            /\ call[k].ref = prevCall[k].ref
            /\ (call[k].lookup = "hit" => creates[k] = 0)

C3_AtMostOne ==
    \A k \in CreatedKinds : \A i, j \in 1..Len(store[k]) :
        store[k][i].name = store[k][j].name => i = j
\* The step of each create-or-get kind, and where the run stands when the
\* create-or-get of the kind has just returned.
StepOfKind(k) ==
    CASE k = "cm" -> StepCm
      [] k = "ipblock" -> StepIpBlock
      [] k = "ippool" -> StepIpPool
      [] k = "uplink" -> StepUplink
      [] k = "tnp" -> StepTnp
      [] k = "htnc" -> StepHtnc

ReturnedAt(k) ==
    CASE k = "cm" -> "cm_status"
      [] k = "ipblock" -> "ippool_lookup"
      [] k = "ippool" -> "subnet_list"
      [] k = "uplink" -> "tz_overlay"
      [] k = "tnp" -> "cc_get"
      [] k = "htnc" -> "htnc_path"

\* C4: for every create-or-get kind, a create request that is rejected with
\* a message containing "already exists" or "duplicate" (in any case) while
\* a resource of the requested name exists does not end the run: the error
\* is not propagated.
C4_ConflictRecovered ==
    \A k \in CreateOrGetKinds :
        ~ ( /\ pc = "failed"
            /\ err.step = StepOfKind(k)
            /\ last.step = StepOfKind(k)
            /\ last.method \in {"POST", "PUT"}
            /\ ~last.ok
            /\ last.existed
            /\ IsDuplicate(last.msg)
            /\ err.msg = last.msg )

\* C5: a registration rejected with error code 7050 is followed by a lookup
\* of the registration by the vCenter's hostname; when a lookup finds one
\* the run goes on to the connection-status poll with it as the compute
\* manager, and when the script's lookup finds none the run ends with the
\* registration's error and takes no further step.
C5_AlreadyRegistered ==
    [][ LET registrations == Named("cm", NameOf("cm"))
            found == last'.ok /\ registrations # {}
        IN
        /\ (pc = "cm_post" /\ ~last'.ok /\ IsAlreadyRegistered(last'.msg)) =>
              (pc' = "cm_relookup" /\ exc' = last'.msg)
        /\ (pc \in {"cm_relookup", "cm_recover"} /\ IsAlreadyRegistered(exc)) =>
              /\ last'.method = "GET" /\ last'.step = StepCm
              /\ IF found
                 THEN /\ pc' = "cm_status"
                      /\ loc'.compute_manager.ref \in registrations
                      /\ call'["cm"].ref = loc'.compute_manager.ref
                 ELSE IF pc = "cm_relookup"
                 THEN pc' = "cm_recover" /\ exc' = exc
                 ELSE pc' = "failed" /\ err' = Fatal(StepCm, "NsxError", exc)
        /\ (pc = "failed" /\ err.step = StepCm) =>
              (run' = run + 1 /\ last.step <= StepCm)
      ]_vars

C5_Witness ==
    /\ pc = "cm_status"
    /\ call["cm"].via = "recover"
    /\ IsAlreadyRegistered(exc)
    /\ creates["cm"] = 1
    /\ last.method = "GET" /\ last.step = StepCm
    /\ loc.compute_manager.ref \in Named("cm", NameOf("cm"))

\* The vendor's conflict: error code 7050, or its text.
IsVendorConflict(msg) ==
    IsAlreadyRegistered(msg) \/ Contains(msg, "already registered with NSX")

\* C6: for every create-or-get kind, a descriptor obtained by the lookup
\* that follows a failed create is returned only when the create's error
\* had a duplicate signature or was the vendor's conflict, and when that
\* lookup finds nothing the run ends with the create's error.
C6_UnclassifiedPropagates ==
    \A k \in CreateOrGetKinds :
        /\ (pc = ReturnedAt(k) /\ call[k].via = "recover") =>
              (IsDuplicate(exc) \/ IsVendorConflict(exc))
        /\ ( /\ pc = "failed" /\ err.step = StepOfKind(k)
             /\ creates[k] > 0
             /\ last.step = StepOfKind(k) /\ last.method = "GET" ) =>
              err.msg = exc
\* The step a position of the run belongs to (0: no run in progress).
StepAt(p) ==
    CASE p = "eula" -> StepEula
      [] p \in {"cm_thumbprint", "cm_lookup", "cm_post", "cm_relookup", "cm_recover"} -> StepCm
      [] p = "cm_status" -> StepCmStatus
      [] p \in {"ipblock_lookup", "ipblock_post", "ipblock_relookup"} -> StepIpBlock
      [] p \in {"ippool_lookup", "ippool_put", "ippool_relookup"} -> StepIpPool
      [] p \in {"subnet_list", "subnet_check", "subnet_put"} -> StepSubnet
      [] p \in {"uplink_get", "uplink_put"} -> StepUplink
      [] p \in {"tz_overlay", "tz_vlan"} -> StepTz
      [] p = "dvs" -> StepDvs
      [] p \in {"tnp_lookup", "tnp_put", "tnp_relookup"} -> StepTnp
      [] p = "cc_get" -> StepCc
      [] p \in {"htnc_lookup", "htnc_post", "htnc_relookup"} -> StepHtnc
      [] p \in {"htnc_path", "realize"} -> StepRealize
      [] p = "verify" -> StepVerify
      [] OTHER -> 0

\* C7: a request of a step other than the connection-status poll and the
\* switch resolution that fails either keeps the run inside its step (the
\* step recovers) or ends the run with a fatal error of that step; a run
\* that ended with a fatal error issues no further request: the only step
\* left is the start of another run.
C7_FatalSteps ==
    [][ /\ ( /\ StepAt(pc) \notin {0, StepCmStatus, StepDvs}
             /\ last'.step = StepAt(pc)
             /\ ~last'.ok ) =>
              \/ pc' = "failed" /\ err'.step = StepAt(pc)
              \/ StepAt(pc') = StepAt(pc)
        /\ (pc' = "failed" /\ run' = run) =>
              (err'.step = StepAt(pc) /\ last'.step <= err'.step)
        /\ pc = "failed" => (run' = run + 1 /\ last'.step = 0)
      ]_vars

C7_Witness ==
    /\ pc = "failed"
    /\ err.step = StepSubnet
    /\ last.step = StepSubnet /\ last.method = "PUT" /\ ~last.ok
    /\ err.msg = last.msg
    /\ creates["uplink"] = 0

\* The iterations of the connection-status loop when no fetch reports UP.
CmPolls == (CmTimeout + Interval - 1) \div Interval

\* C8: the connection-status poll never raises and always hands over to the
\* IP block step; it returns on the first fetch that reports UP, and when
\* the budget is exhausted it does exactly one more fetch and returns
\* whatever that fetch gives.
C8_StatusPoll ==
    [][ pc = "cm_status" =>
          /\ pc' \in {"cm_status", "ipblock_lookup"}
          /\ err' = NoErr
          /\ fetches' \in {fetches, fetches + 1}
          /\ (fetches' = fetches + 1 /\ last'.ok /\ last'.status = "UP") =>
                pc' = "ipblock_lookup"
          /\ (fetches' = fetches + 1 /\ pc' = "ipblock_lookup") =>
                \/ last'.ok /\ last'.status = "UP"
                \/ elapsed >= CmTimeout /\ fetches = CmPolls
          /\ (elapsed >= CmTimeout /\ loc.compute_manager.hasId) =>
                (fetches = CmPolls /\ fetches' = CmPolls + 1 /\ pc' = "ipblock_lookup")
      ]_vars

C8_Witness ==
    /\ pc = "ipblock_lookup"
    /\ elapsed >= CmTimeout
    /\ fetches = CmPolls + 1
    /\ last.step = StepCmStatus /\ ~last.ok

\* C9: within a run the steps of the requests never decrease and each
\* request belongs to the step the run is at, the position of the run never
\* goes back to an earlier step, and the first request of every run is the
\* acceptance of the licence.
C9_StepOrder ==
    [][ /\ run' = run =>
              /\ last'.step >= last.step
              /\ last'.step \in {last.step, StepAt(pc)}
              /\ pc' \notin {"done", "failed"} => StepAt(pc') >= StepAt(pc)
        /\ run' # run => last'.step = 0
        /\ (last.step = 0 /\ last'.step # 0) =>
              (last'.step = StepEula /\ last'.method = "POST" /\ last'.url = "eula/accept")
      ]_vars

C9_Witness ==
    /\ pc = "done" /\ run = 2 /\ prevOutcome = "done"
    /\ last.step = StepVerify
    /\ \A k \in CreateOrGetKinds : call[k].via = "lookup"

\* The locals that hold what create-or-get returned.
LocalOfKind(k) ==
    CASE k = "cm" -> "compute_manager"
      [] k = "ipblock" -> "ip_block"
      [] k = "ippool" -> "ip_pool"
      [] k = "uplink" -> "uplink_profile"
      [] k = "tnp" -> "tnp"
      [] k = "htnc" -> "htnc"

\* C10: every descriptor a create-or-get has returned carries a non-empty
\* path, whichever way it was obtained.
C10_PathPresent ==
    \A k \in CreateOrGetKinds :
        LET d == loc[LocalOfKind(k)] IN
        d.ref # 0 => (d.hasPath /\ d.path # <<>>)
\* A descriptor carries a non-empty path.
HasCanonicalPath(d) == d.hasPath /\ d.path # <<>>

\* C11: a request of the subnet step is issued only when the IP pool and the
\* IP block descriptors both carry a non-empty path; a run that reaches the
\* step with a descriptor lacking the "path" key ends there with a
\* ValueError that names the descriptor.
C11_SubnetPrecondition ==
    /\ last.step = StepSubnet =>
          (HasCanonicalPath(loc.ip_pool) /\ HasCanonicalPath(loc.ip_block))
    /\ (pc = "failed" /\ err.step = StepSubnet /\ err.type = "ValueError") =>
          (last.step < StepSubnet /\ creates["subnet"] = 0)

\* C12: the function returns only from an attempt whose relevant set is not
\* empty and in which every relevant node answered its own status fetch with
\* deployment status INSTALL_SUCCESSFUL and status UP.
C12_ReadyOnly ==
    pc = "done" => vfy.nodes_ready

\* C13: an attempt that classified a node as failed ends the function with
\* an error in that attempt (no retry, so no further wait or listing), and
\* the error names every node the attempt classified as failed.
C13_FailedAborts ==
    (vfy.attempt > 0 /\ vfy.failed_nodes # <<>>) =>
        /\ pc = "failed"
        /\ err.step = StepVerify
        /\ SeqToSet(vfy.failed_nodes) \subseteq err.msg

\* C14: an attempt in which the status fetch of a relevant node raised has
\* classified that node as failed and has ended the function, without a
\* retry, with an error that names the node.
C14_FetchErrorAborts ==
    \A j \in 1..vfy.fetched :
        ~vfy.answers[j].ok =>
            LET name == vfy.relevant_nodes[j].display_name IN
            /\ name \in SeqToSet(vfy.failed_nodes)
            /\ pc = "failed"
            /\ err.step = StepVerify
            /\ name \in err.msg

\* C15: a relevant node whose status response says DOWN, or whose
\* deployment status carries an error or failure marker, is among the
\* failed nodes of the attempt, whatever the other field says.
C15_DownOrMarkerFailed ==
    \A j \in 1..vfy.fetched :
        LET data == vfy.answers[j].data IN
        ( /\ vfy.answers[j].ok
          /\ \/ (data.hasStatus /\ data.status = "DOWN")
             \/ (data.hasDeployment /\ HasFailureMarker(data.deployment)) )
        => vfy.relevant_nodes[j].display_name \in SeqToSet(vfy.failed_nodes)

\* C16: an attempt that lists no node of the compute collection never
\* returns and raises only when it is the last of the budget, with "No
\* transport nodes found"; when every attempt so far listed none, the
\* function has failed exactly when the budget of attempts is used up.
C16_EmptyIsPreparing ==
    /\ (vfy.attempt > 0 /\ vfy.listed /\ vfy.relevant_nodes = <<>>) =>
          /\ pc # "done"
          /\ pc = "failed" =>
                /\ vfy.attempt = MaxAttempts
                /\ "No transport nodes found for compute collection" \in err.msg
    /\ (vfy.attempt > 0 /\ vfy.empties = vfy.attempt) =>
          (pc = "failed" <=> vfy.attempt = MaxAttempts)

C16_Witness ==
    /\ pc = "failed"
    /\ vfy.attempt = MaxAttempts
    /\ vfy.empties = MaxAttempts
    /\ "No transport nodes found for compute collection" \in err.msg

\* C17: wait_for_htnc_realization returns, and verify_nsx_configuration_status
\* is entered, only in the step in which a fetch of the same run answered
\* "REALIZED"; a fetch that answered another state is followed by a wait of
\* Interval and the loop; the function raises TimeoutError only when the
\* budget is used up, the last fetch not having answered "REALIZED", and
\* otherwise only the error of a fetch.
C17_RealizedFirst ==
    [][ /\ (pc' = "verify" /\ pc # "verify") =>
              /\ pc = "realize"
              /\ run' = run
              /\ last'.step = StepRealize /\ last'.ok /\ last'.status = "REALIZED"
        /\ pc = "realize" =>
              /\ pc' \in {"realize", "verify", "failed"}
              /\ pc' = "realize" =>
                    /\ elapsed < RealizeTimeout
                    /\ last'.ok /\ last'.status # "REALIZED"
                    /\ fetches' = fetches + 1
                    /\ elapsed' = elapsed + Interval
              /\ pc' = "failed" =>
                    /\ err'.step = StepRealize
                    /\ IF err'.type = "TimeoutError"
                       THEN /\ elapsed >= RealizeTimeout
                            /\ last' = last
                            /\ last.step = StepRealize /\ last.status # "REALIZED"
                       ELSE /\ elapsed < RealizeTimeout
                            /\ ~last'.ok
        /\ (last'.step = StepVerify /\ last.step # StepVerify) =>
              (last.step = StepRealize /\ last.ok /\ last.status = "REALIZED")
      ]_vars

\* The host-preparation poll is about to start after a fetch that answered
\* another state, a wait, and a fetch that answered "REALIZED".
C17_Witness ==
    /\ pc = "verify"
    /\ vfy.attempt = 0
    /\ fetches = 2
    /\ elapsed = Interval
    /\ last.status = "REALIZED"

\* C18: the step after the host transport node collection sets htnc_path
\* to the descriptor's path when it has a non-empty one, else to the path
\* made from its id, and goes on to the realization poll; with neither, the
\* run ends successfully there, its last request still that of the
\* collection step (no realization or transport-node request).
C18_RealizationPath ==
    [][ pc = "htnc_path" =>
          LET htnc == loc.htnc IN
          IF HasCanonicalPath(htnc)
          THEN pc' = "realize" /\ loc'.htnc_path = htnc.path
          ELSE IF htnc.hasId
          THEN pc' = "realize" /\ loc'.htnc_path = HtncPrefix \o <<htnc.id>>
          ELSE /\ pc' = "done"
               /\ last' = last /\ last.step = StepHtnc
               /\ fetches' = 0 /\ vfy' = vfy /\ vfy.attempt = 0
      ]_vars

\* A run has ended successfully after the collection step, the descriptor
\* having neither a path nor an id.
C18_Witness ==
    /\ pc = "done"
    /\ last.step = StepHtnc
    /\ ~HasCanonicalPath(loc.htnc) /\ ~loc.htnc.hasId
    /\ loc.htnc.ref # 0

\* C19: the step that resolves the switch identifier never ends the run:
\* it is always followed by the transport node profile step, with "DSwitch"
\* as the identifier when the search request raised and the identifier of
\* a search result or "DSwitch" otherwise.
C19_DvsNeverFails ==
    [][ pc = "dvs" =>
          /\ pc' = "tnp_lookup"
          /\ last'.step = StepDvs
          /\ loc'.vsphere_dvs_id # ""
          /\ ~last'.ok => loc'.vsphere_dvs_id = "DSwitch"
      ]_vars

\* C20: when get_ssl_thumbprint raises, the run ends at once with the
\* error, at the compute manager step, without any request (the last
\* request and the created resources are unchanged); a run that has
\* failed issues nothing more, the next step being the start of another run.
C20_ThumbprintFatal ==
    [][ /\ (pc = "cm_thumbprint" /\ anomalies' > anomalies) =>
              /\ pc' = "failed"
              /\ err'.step = StepCm
              /\ last' = last /\ last.step < StepCm
              /\ creates' = creates /\ store' = store
        /\ (pc = "cm_thumbprint" /\ pc' # "failed") => pc' = "cm_lookup"
        /\ pc = "failed" => (run' = run + 1 /\ last' = NoReq /\ store' = store)
      ]_vars

\* The first run has failed at the compute manager step before any of its
\* requests: the thumbprint could not be retrieved.
C20_Witness ==
    /\ pc = "failed"
    /\ run = 1
    /\ err.step = StepCm
    /\ last.step < StepCm
    /\ creates["cm"] = 0

\* C21: no request is a DELETE, and no POST or PUT of a provisioning step
\* targets a resource that exists on the backend when it is issued, also
\* after an existence lookup that failed.
C21_WriteOnce ==
    /\ last.method # "DELETE"
    /\ (last.method \in {"POST", "PUT"} /\ last.step # StepEula) => ~last.existed

\* C25: the subnet step issues its PUT only when the subnet with the
\* derived name does not exist in the pool; when it exists the step goes on
\* without a write.
C25_SubnetReused ==
    [][ /\ (pc = "subnet_check" /\ WithId("subnet", SubnetId(loc.ip_pool.path)) # {}) =>
              (pc' = "uplink_get" /\ creates' = creates /\ store' = store)
        /\ (pc' = "subnet_put" /\ pc # "subnet_put") =>
              WithId("subnet", SubnetId(loc.ip_pool.path)) = {}
      ]_vars

\* C22: with fetches that take no time and never report UP, the poll under
\* the wall-clock budget of 120 at the interval of 10 has performed, when it
\* returns, as many status fetches as a budget of 120 / 10 = 12 attempts
\* allows.
C22_BudgetEquivalence ==
    (pc = "ipblock_lookup" /\ ~IsUp(last)) => fetches = CmStatusTimeout \div Interval

\* C23: every run that has started ends, done or failed; meanwhile the time
\* the two timed polls have waited stays within a wait of their timeout and
\* the host-preparation poll has made at most MaxAttempts listings.
C23_Terminates ==
    /\ [](/\ vfy.attempt <= MaxAttempts
          /\ pc = "cm_status" => elapsed < CmTimeout + Interval
          /\ pc = "realize" => elapsed < RealizeTimeout + Interval
          /\ fetches * Interval <= elapsed + Interval)
    /\ [](pc \notin {"idle", "done", "failed"} => <>(pc \in {"done", "failed"}))

\* A run has ended with the timeout of the host-preparation poll, its
\* budget of attempts used up.
C23_Witness ==
    /\ pc = "failed"
    /\ err.step = StepVerify
    /\ vfy.attempt = MaxAttempts
    /\ "Timeout waiting for host preparation" \in err.msg

\* Where the run stands before the existence lookup of a create-or-get kind
\* and before its create request.
LookupAt(k) ==
    CASE k = "cm" -> "cm_lookup"
      [] k = "ipblock" -> "ipblock_lookup"
      [] k = "ippool" -> "ippool_lookup"
      [] k = "uplink" -> "uplink_get"
      [] k = "tnp" -> "tnp_lookup"
      [] k = "htnc" -> "htnc_lookup"

CreateAt(k) ==
    CASE k = "cm" -> "cm_post"
      [] k = "ipblock" -> "ipblock_post"
      [] k = "ippool" -> "ippool_put"
      [] k = "uplink" -> "uplink_put"
      [] k = "tnp" -> "tnp_put"
      [] k = "htnc" -> "htnc_post"

\* C24: for every create-or-get kind, an existence lookup whose request
\* raised is followed by the create request of the kind; the error does not
\* end the run.
C24_LookupErrorIsNotFound ==
    [][ \A k \in CreateOrGetKinds :
          ( /\ pc = LookupAt(k)
            /\ last'.step = StepOfKind(k) /\ last'.method = "GET" /\ ~last'.ok )
          => pc' = CreateAt(k)
      ]_vars

\* C26: an attempt that lists at least one node of the compute collection
\* and gets INSTALL_SUCCESSFUL and UP from every one of them returns in that
\* attempt, whatever is left of the budget.
C26_ReadyReturns ==
    (vfy.attempt > 0 /\ vfy.nodes_ready) =>
        /\ pc = "done"
        /\ last.step = StepVerify /\ last.status = "return"
        /\ vfy.fetched = Len(vfy.relevant_nodes)

\* The function has returned on its first attempt, two nodes ready, with
\* attempts left.
C26_Witness ==
    /\ pc = "done"
    /\ vfy.nodes_ready
    /\ vfy.attempt = 1 /\ vfy.attempt < MaxAttempts
    /\ Len(vfy.relevant_nodes) = 2

\* C27: an attempt that classified no node as failed and at least one as
\* still preparing is followed by a retry while attempts remain; on the
\* last attempt the function fails with the timeout error, which names
\* every node still preparing.
C27_TimeoutNamesPreparing ==
    (vfy.attempt > 0 /\ vfy.failed_nodes = <<>> /\ vfy.preparing_hosts # <<>>) =>
        IF vfy.attempt < MaxAttempts
        THEN pc = "verify"
        ELSE /\ pc = "failed"
             /\ "Timeout waiting for host preparation" \in err.msg
             /\ SeqToSet(vfy.preparing_hosts) \subseteq err.msg

\* A zone of the name and the type is among those listed.
HasZone(zones, display_name, tz_type) ==
    \E i \in 1..Len(zones) :
        zones[i].display_name = display_name /\ zones[i].tz_type = tz_type

\* C28: the run goes past the listing of the overlay zone, and past that of
\* the VLAN zone, only when a zone of the fixed name and of the expected
\* type was listed, and holds that zone; when none was, the run has failed
\* with ValueError at this step, the listing its last request and no
\* transport node profile request issued.  A zone of the right name and the
\* wrong type is no match.
C28_ZoneRequired ==
    /\ (last.step = StepTz /\ last.ok) =>
          /\ pc \in {"tz_vlan", "dvs", "failed"}
          /\ pc = "tz_vlan" =>
                HasZone(last.zones, "nsx-overlay-transportzone", "OVERLAY_STANDARD")
          /\ pc = "dvs" =>
                HasZone(last.zones, "nsx-vlan-transportzone", "VLAN_BACKED")
          /\ (pc = "failed" /\ err.step = StepTz) =>
                /\ err.type = "ValueError"
                /\ creates["tnp"] = 0
                /\ IF loc.overlay_tz.ref = 0
                   THEN ~HasZone(last.zones, "nsx-overlay-transportzone", "OVERLAY_STANDARD")
                   ELSE ~HasZone(last.zones, "nsx-vlan-transportzone", "VLAN_BACKED")
    /\ (loc.overlay_tz.ref # 0 /\ loc.overlay_tz.hasId) => loc.overlay_tz.id = "tz-overlay"
    /\ (loc.vlan_tz.ref # 0 /\ loc.vlan_tz.hasId) => loc.vlan_tz.id = "tz-vlan"

\* The run has failed at the overlay zone: the only zone of its name that
\* was listed is VLAN-backed.
C28_Witness ==
    /\ pc = "failed"
    /\ err.step = StepTz /\ err.type = "ValueError"
    /\ last.step = StepTz /\ last.ok
    /\ last.zones = <<OverlayNamedVlan, VlanZone>>
    /\ loc.overlay_tz.ref = 0
    /\ creates["tnp"] = 0

\* C29: an attempt whose listing request raised ends the function with
\* that error when its text holds "failed" or "error" in any letter case;
\* otherwise the attempt is used up and followed by a retry, and the error
\* is raised only when the attempt was the last of the budget.
C29_ListingErrorClassified ==
    (vfy.attempt > 0 /\ ~vfy.listed) =>
        /\ ~last.ok
        /\ IF last.msg \in {MsgFailed, MsgCodeOther, MsgServerError}
           THEN pc = "failed" /\ err.msg = last.msg
           ELSE /\ last.msg = MsgTimedOut
                /\ IF vfy.attempt < MaxAttempts
                   THEN pc = "verify"
                   ELSE pc = "failed" /\ err.msg = last.msg

\* A listing that timed out on every attempt: the error is raised on the
\* last one.
C29_Witness ==
    /\ pc = "failed"
    /\ ~vfy.listed
    /\ vfy.attempt = MaxAttempts
    /\ last.msg = MsgTimedOut
    /\ err.msg = MsgTimedOut

\* C30: a run that starts with the setting ff_component_wait_for_status
\* other than "true" fails at once with ValueError, before any request
\* (none is recorded, not that of the EULA) and with the backend as it was;
\* with "true" it goes on to the EULA.  A run failed so issues nothing
\* until another run starts.
C30_FlagGate ==
    [][ /\ run' = run + 1 =>
              /\ last' = NoReq
              /\ store' = store
              /\ creates' = [k \in CreatedKinds |-> 0]
              /\ IF loc'.ff_component_wait_for_status # "true"
                 THEN /\ pc' = "failed"
                      /\ err'.type = "ValueError" /\ err'.step = 0
                 ELSE pc' = "eula" /\ err' = NoErr
        /\ (pc = "failed" /\ err.step = 0) =>
              /\ last = NoReq
              /\ loc.ff_component_wait_for_status # "true"
              /\ run' = run + 1
      ]_vars

\* A second run has failed on the setting, the backend holding what the
\* first run provisioned.
C30_Witness ==
    /\ pc = "failed"
    /\ err.step = 0 /\ err.type = "ValueError"
    /\ run = 2
    /\ loc.ff_component_wait_for_status = "True"
    /\ last = NoReq
    /\ \A k \in CreatedKinds : Len(store[k]) = 1 /\ creates[k] = 0

=============================================================================
